---- MODULE Spec2Model ----
(***************************************************************************)
(* The location-creator chatbot of src/app.py as a state machine.          *)
(*                                                                         *)
(* The program is a Streamlit script: every UI event (a file put in the    *)
(* uploader, a chat message) runs the whole script top to bottom, and      *)
(* st.rerun() at the end of the chat handler runs it once more.  A script  *)
(* run is modelled step by step through pc: the start-up checks, the bulk  *)
(* import loop (one identifier generation and one save per row), the chat  *)
(* handler, the rerun.  Sessions hold their own st.session_state; the      *)
(* MySQL table `location` is the only state they share.                    *)
(*                                                                         *)
(* Text is a sequence of one-character strings, so that split(","),        *)
(* strip() and lower() are computed as Python computes them.               *)
(* Left out: chat_history (written at lines 211 and 256, read only to      *)
(* render it) and created_date (the wall clock).                           *)
(***************************************************************************)
EXTENDS Naturals, Sequences, FiniteSets

\* ------------------------------------------------------------------ bounds
\* rows the table holds before every further insert fails
MaxRows == 2
\* rows of an uploaded CSV file
MaxFileRows == 2

\* ---------------------------------------------------------------- constants
\* random.choices(string.ascii_uppercase, k=2)
LetterCount == 2
\* random.choices(string.digits, k=3)
DigitCount == 3

Sessions == {1, 2}

\* string.ascii_uppercase, string.ascii_lowercase, string.digits
AsciiUpper ==
    << "A", "B", "C", "D", "E", "F", "G", "H", "I", "J", "K", "L", "M",
       "N", "O", "P", "Q", "R", "S", "T", "U", "V", "W", "X", "Y", "Z" >>
AsciiLower ==
    << "a", "b", "c", "d", "e", "f", "g", "h", "i", "j", "k", "l", "m",
       "n", "o", "p", "q", "r", "s", "t", "u", "v", "w", "x", "y", "z" >>
AsciiDigits == << "0", "1", "2", "3", "4", "5", "6", "7", "8", "9" >>

Range(f) == {f[i] : i \in DOMAIN f}

\* The letters and digits the model lets the random draws produce.
DrawnLetters == {"A", "Z"}
DrawnDigits == {"7"}

required_fields == << "location_name", "location_type", "zone", "aisle", "site_code" >>
Fields == Range(required_fields)
Keys == Fields \cup {"location_id", "created_by"}

\* ------------------------------------------------------------ text helpers
\* str.lower() on one character
LowerChar(c) ==
    IF \E i \in 1..26 : AsciiUpper[i] = c
    THEN AsciiLower[CHOOSE i \in 1..26 : AsciiUpper[i] = c]
    ELSE c

\* str.lower()
Lower(t) == [i \in 1..Len(t) |-> LowerChar(t[i])]

RECURSIVE LStrip(_)
LStrip(t) == IF t # << >> /\ Head(t) = " " THEN LStrip(Tail(t)) ELSE t

RECURSIVE RStrip(_)
RStrip(t) ==
    IF t # << >> /\ t[Len(t)] = " " THEN RStrip(SubSeq(t, 1, Len(t) - 1)) ELSE t

\* str.strip()
Strip(t) == RStrip(LStrip(t))

RECURSIVE SplitFrom(_, _, _)
SplitFrom(t, cur, acc) ==
    IF t = << >> THEN Append(acc, cur)
    ELSE IF Head(t) = "," THEN SplitFrom(Tail(t), << >>, Append(acc, cur))
    ELSE SplitFrom(Tail(t), Append(cur, Head(t)), acc)

\* str.split(",")
Split(t) == SplitFrom(t, << >>, << >>)

\* the values of the message without the strip()
ValuesRaw(t) == Split(t)

\* [v.strip() for v in user_input.split(",")]
Values(t) == [i \in 1..Len(Split(t)) |-> Strip(Split(t)[i])]

\* ------------------------------------------------------------------ inputs
None == << >>
Some(v) == << v >>

\* chat messages the user types: five values and one too many, a yes, a no,
\* and one that is neither (lower() does not strip it)
MsgFull == << "Y", ",", " ", "Y", " ", ",", "Y", ",", "Y", ",", "Y", ",", "Y" >>
MsgY == << "Y" >>
MsgNo == << "N" >>
MsgOther == << " ", "Y" >>

Messages == {MsgFull, MsgY, MsgNo, MsgOther}

\* messages that answer the prompt for fields: five values, two values, and
\* three values of which the first is empty and the second is blank
MsgFive == << "a", ",", " ", "b", ",", "c", " ", ",", "d", ",", "e" >>
MsgTwo == << "f", ",", "g" >>
MsgGap == << ",", " ", ",", "k" >>

FormMessages == Messages \cup {MsgFive, MsgTwo, MsgGap}

\* rows of an uploaded CSV: a cell the row leaves empty is None
CsvRowFull ==
    [f \in Fields |->
        CASE f = "location_name" -> Some(<< "y", " " >>)
          [] f = "location_type" -> Some(<< "q" >>)
          [] f = "zone" -> Some(<< " ", "r" >>)
          [] f = "aisle" -> Some(<< "s" >>)
          [] f = "site_code" -> Some(<< "t" >>)]
CsvRowPartial ==
    [f \in Fields |-> IF f = "location_name" THEN Some(<< "w" >>) ELSE None]

\* the files the user uploads: of 1 to MaxFileRows rows
Files ==
    { [i \in 1..n |-> IF i % 2 = 1 THEN CsvRowFull ELSE CsvRowPartial] :
        n \in 1..MaxFileRows }

\* the import's call counters stop counting one past the rows of a file
MaxCalls == MaxFileRows + 1
Count(n) == IF n < MaxCalls THEN n + 1 ELSE n

\* the identifiers the random draws of generate_location_id produce here:
\* LetterCount letters followed by DigitCount digits
Candidates ==
    { [i \in 1..LetterCount |-> l] \o [i \in 1..DigitCount |-> d] :
        l \in DrawnLetters, d \in DrawnDigits }

\* how a call of save_to_mysql can end: no error; mysql.connector.Error at
\* connect (line 110); at the SELECT, the INSERT or a commit that did not
\* take (lines 122-142); or once the server has committed the row (the
\* connection lost before conn.commit() is acknowledged, or an error of the
\* two close() calls, lines 142-144)
Outcomes == {"ok", "err_connect", "err_insert", "err_close"}

\* ------------------------------------------------------------------- state
VARIABLES
    table,              \* the rows of the MySQL table `location`, in insert order
    pc,                 \* where each session's script run stands
    uploaded_file,      \* what st.file_uploader holds
    submitted,          \* whether st.chat_input has a message for this run
    user_input,         \* what st.chat_input returned in this run
    collected_data,     \* st.session_state.collected_data
    awaiting_fields,    \* st.session_state.awaiting_fields
    approval_status,    \* st.session_state.approval_status
    created_locations,  \* st.session_state.created_locations
    bot_reply,          \* bot_reply of the chat turn of this run
    rendered,           \* the st.success messages of the import loop of this run
    row_idx,            \* the row the import loop is at
    loc_id,             \* generate_location_id: the candidate drawn
    gen_ret,            \* row_data["location_id"] of the row being imported
    ret_to,             \* generate_location_id: who called
    op,                 \* the database operation of the session's last step
    errs,               \* whether any database operation of the session raised
    import_gen,         \* generate_location_id calls of the import, this file
    import_save,        \* save_to_mysql calls of the import, this file
    chat_saves,         \* save_to_mysql calls of the chat handler
    loop_base,          \* Len(created_locations) when the import loop began
    actor               \* the session that took the last step

vars ==
    << table, pc, uploaded_file, submitted, user_input, collected_data,
       awaiting_fields, approval_status, created_locations, bot_reply, rendered,
       row_idx, loc_id, gen_ret, ret_to, op, errs, import_gen, import_save,
       chat_saves, loop_base, actor >>

NoReply == [kind |-> "none"]

\* op: the session's last step touched no database
NoOp == [kind |-> "none"]

Init ==
    /\ table = << >>
    /\ pc = [s \in Sessions |-> "idle"]
    /\ uploaded_file = [s \in Sessions |-> None]
    /\ submitted = [s \in Sessions |-> FALSE]
    /\ user_input = [s \in Sessions |-> None]
    /\ collected_data = [s \in Sessions |-> [k \in Keys |-> None]]
    /\ awaiting_fields = [s \in Sessions |-> << >>]
    /\ approval_status = [s \in Sessions |-> "None"]
    /\ created_locations = [s \in Sessions |-> << >>]
    /\ bot_reply = [s \in Sessions |-> NoReply]
    /\ rendered = [s \in Sessions |-> << >>]
    /\ row_idx = [s \in Sessions |-> 0]
    /\ loc_id = [s \in Sessions |-> << >>]
    /\ gen_ret = [s \in Sessions |-> << >>]
    /\ ret_to = [s \in Sessions |-> "none"]
    /\ op = [s \in Sessions |-> NoOp]
    /\ errs = [s \in Sessions |-> FALSE]
    /\ import_gen = [s \in Sessions |-> 0]
    /\ import_save = [s \in Sessions |-> 0]
    /\ chat_saves = [s \in Sessions |-> 0]
    /\ loop_base = [s \in Sessions |-> 0]
    /\ actor = 1

\* --------------------------------------------------------------- functions
Set(f, s, v) == [f EXCEPT ![s] = v]

\* a missing_fields() that tests `field not in collected_data` only
missing_fields_unset(cd) == SelectSeq(required_fields, LAMBDA f : cd[f] = None)

\* a missing_fields() that asks for the whole form when a field is missing
missing_fields_all(cd) ==
    IF \E f \in Fields : cd[f] = None \/ cd[f] = Some(<< >>)
    THEN required_fields ELSE << >>

\* missing_fields(): `not collected_data.get(field)` holds of an absent key
\* and of the empty string
missing_fields(cd) ==
    SelectSeq(required_fields, LAMBDA f : cd[f] = None \/ cd[f] = Some(<< >>))

\* an assignment by the position of the field in required_fields, not in the
\* awaited list
AssignValuesByField(cd, awaiting, values) ==
    [k \in Keys |->
        IF \E i \in 1..Len(required_fields) :
            required_fields[i] = k /\ k \in Range(awaiting) /\ i <= Len(values)
        THEN Some(values[CHOOSE i \in 1..Len(required_fields) : required_fields[i] = k])
        ELSE cd[k]]

\* lines 215-217: the i-th awaited field takes the i-th value, if there is one
AssignValues(cd, awaiting, values) ==
    [k \in Keys |->
        IF \E i \in 1..Len(awaiting) : awaiting[i] = k /\ i <= Len(values)
        THEN Some(values[CHOOSE i \in 1..Len(awaiting) : awaiting[i] = k])
        ELSE cd[k]]

\* line 242: user_input.lower() in ["yes", "y"]
Affirmative(msg) == Lower(msg) \in {<< "y", "e", "s" >>, << "y" >>}

\* line 248: user_input.lower() in ["no", "n"]
Negative(msg) == Lower(msg) \in {<< "n", "o" >>, << "n" >>}

\* line 97: SELECT COUNT(*) FROM location WHERE location_id = %s
CountId(tbl, id) == Cardinality({i \in 1..Len(tbl) : tbl[i].location_id = id})

\* generate_location_id without the test of line 101: every candidate is returned
GenReturnsUnchecked(err, exists) == TRUE

\* generate_location_id that draws again after an error instead of returning
GenReturnsVerified(err, exists) == exists = 0

\* generate_location_id with the test of line 101 inverted
GenReturnsPresent(err, exists) == err \/ exists # 0

\* lines 101-105: what generate_location_id does after its existence check:
\* on an error it returns the candidate, as it does when no row has it
GenReturns(err, exists) == err \/ exists = 0

\* lines 122-123: SELECT COUNT(*) FROM location WHERE LOWER(location_name) = %s
CountName(tbl, name) ==
    Cardinality({i \in 1..Len(tbl) : Lower(tbl[i].location_name) = Lower(name)})

\* lines 118-119, 133-139: the values save_to_mysql inserts
Cleaned(data) ==
    [location_id |-> data.location_id,
     location_name |-> Strip(data.location_name),
     location_type |-> Strip(data.location_type),
     zone |-> Strip(data.zone),
     aisle |-> Strip(data.aisle),
     site_code |-> Strip(data.site_code),
     created_by |-> data.created_by]

\* a row of the table: the values inserted, and the session that inserted them
Row(s, data) ==
    [location_id |-> data.location_id,
     location_name |-> Strip(data.location_name),
     location_type |-> Strip(data.location_type),
     zone |-> Strip(data.zone),
     aisle |-> Strip(data.aisle),
     site_code |-> Strip(data.site_code),
     created_by |-> data.created_by,
     session |-> s]

\* save_to_mysql without the conn.commit() of line 142
CommittedNever(outcome) == FALSE

\* line 142: whether conn.commit() took
Committed(outcome) == outcome \in {"ok", "err_close"}

\* lines 147-156 are reached when nothing before them raised
Snapshots(outcome) == outcome = "ok"

\* a duplicate-name check that compares the names as they are written
WarnsExact(tbl, data, outcome) ==
    /\ outcome # "err_connect"
    /\ \E i \in 1..Len(tbl) : tbl[i].location_name = Strip(data.location_name)

\* line 124: the warning needs the SELECT to have run
Warns(tbl, data, outcome) ==
    outcome # "err_connect" /\ CountName(tbl, Strip(data.location_name)) > 0

\* created_locations kept in one module-level list that every session shares
AppendCreatedGlobal(cl, s, data) == [t \in Sessions |-> Append(cl[t], Cleaned(data))]

\* lines 147-156: st.session_state.created_locations.append(...)
AppendCreated(cl, s, data) == Set(cl, s, Append(cl[s], Cleaned(data)))

\* lines 158-160: the message save_to_mysql returns
SaveMessage(data, outcome) ==
    IF outcome = "ok" THEN [kind |-> "success", id |-> data.location_id]
    ELSE [kind |-> "db_error"]

\* the outcomes a save can have now: a full table refuses the insert
Possible(tbl) ==
    IF Len(tbl) < MaxRows THEN Outcomes ELSE {"err_connect", "err_insert"}

\* save_to_mysql(data), called by `caller` of session s, ending in `outcome`
save_to_mysql(s, caller, data, outcome) ==
    /\ outcome \in Possible(table)
    /\ table' = IF Committed(outcome) THEN Append(table, Row(s, data)) ELSE table
    /\ created_locations' =
        IF Snapshots(outcome) THEN AppendCreated(created_locations, s, data)
        ELSE created_locations
    /\ op' = Set(op, s,
            [kind |-> "save", caller |-> caller, status |-> approval_status[s],
             awaiting |-> awaiting_fields[s], id |-> data.location_id,
             outcome |-> outcome, warned |-> Warns(table, data, outcome),
             message |-> SaveMessage(data, outcome)])
    /\ errs' = Set(errs, s, errs[s] \/ outcome # "ok")

\* line 170: the columns pd.read_csv gives the frame: those some row fills
Columns(rows) == {f \in Fields : \E i \in 1..Len(rows) : rows[i][f] # None}

\* str(row.get(field, "")).strip(), lines 177-181: the default for a column
\* the frame lacks, "nan" for an empty cell of a column it has
Cell(rows, i, f) ==
    Strip(IF rows[i][f] # None THEN rows[i][f][1]
          ELSE IF f \in Columns(rows) THEN << "n", "a", "n" >>
          ELSE << >>)

\* lines 175-183: the record the import builds from row i of the file
RowData(rows, i, id) ==
    [location_id |-> id,
     location_name |-> Cell(rows, i, "location_name"),
     location_type |-> Cell(rows, i, "location_type"),
     zone |-> Cell(rows, i, "zone"),
     aisle |-> Cell(rows, i, "aisle"),
     site_code |-> Cell(rows, i, "site_code"),
     created_by |-> "CSV Upload"]

\* line 245: the dict the chat handler hands to save_to_mysql
ChatData(cd) ==
    [location_id |-> cd["location_id"][1],
     location_name |-> cd["location_name"][1],
     location_type |-> cd["location_type"][1],
     zone |-> cd["zone"][1],
     aisle |-> cd["aisle"][1],
     site_code |-> cd["site_code"][1],
     created_by |-> IF cd["created_by"] = None THEN "AI" ELSE cd["created_by"][1]]

\* a handler that leaves the status pending when the save failed, so that
\* another yes tries again
StatusAfterSaveRetry(outcome) == IF outcome = "ok" THEN "approved" ELSE "pending"

\* line 247: the status after the call of save_to_mysql, whatever it returned
StatusAfterSave(outcome) == "approved"

\* line 168: the import block runs when the uploader holds a file
ImportRuns(file) == file # None

\* an import loop that stops at the first row whose save fails
LoopStopsOnError(outcome, idx, n) == outcome = "ok" /\ idx < n

\* lines 174-185: the loop goes on to the next row whatever the save returned
LoopContinues(outcome, idx, n) == idx < n

\* a chat handler that takes a yes before the review was shown
BranchNoReview(status, msg) ==
    IF status \in {"None", "pending"} /\ Affirmative(msg) THEN "yes"
    ELSE IF status = "None" THEN "review"
    ELSE IF status = "pending" THEN IF Negative(msg) THEN "no" ELSE "other"
    ELSE "fallback"

\* a chat handler that asks yes or no again after a cancellation
BranchCancelledAsks(status, msg) ==
    IF status = "None" THEN "review"
    ELSE IF status \in {"pending", "cancelled"}
    THEN IF Affirmative(msg) THEN "yes"
         ELSE IF Negative(msg) THEN "no" ELSE "other"
    ELSE "fallback"

\* a chat handler that takes whatever is not a yes for a no
BranchOtherCancels(status, msg) ==
    IF status = "None" THEN "review"
    ELSE IF status = "pending"
    THEN IF Affirmative(msg) THEN "yes" ELSE "no"
    ELSE "fallback"

\* a chat handler that sends to the language model what is neither yes nor no
BranchPendingChats(status, msg) ==
    IF status = "None" THEN "review"
    ELSE IF status = "pending" /\ Affirmative(msg) THEN "yes"
    ELSE IF status = "pending" /\ Negative(msg) THEN "no"
    ELSE "fallback"

\* a chat handler that takes a yes again once approved
BranchApprovedAsks(status, msg) ==
    IF status = "None" THEN "review"
    ELSE IF status = "pending" \/ (status = "approved" /\ Affirmative(msg))
    THEN IF Affirmative(msg) THEN "yes"
         ELSE IF Negative(msg) THEN "no" ELSE "other"
    ELSE "fallback"

\* lines 233-254: the branch the chat handler takes once nothing is missing
Branch(status, msg) ==
    IF status = "None" THEN "review"
    ELSE IF status = "pending"
    THEN IF Affirmative(msg) THEN "yes"
         ELSE IF Negative(msg) THEN "no" ELSE "other"
    ELSE "fallback"

\* ----------------------------------------------------------------- actions
\* lines 13-56, 163-176: a script run starts, with a chat message or not (inp),
\* the uploader holding file, and the import having made gen0 generator calls.
\* When the connection check fails (up is false), st.stop() ends the run.
\* With a file in the uploader the import loop begins, and its first row
\* calls generate_location_id; with neither file nor message the script ends.
Start(s, up, inp, file, gen0) ==
    /\ user_input' = Set(user_input, s, None)
    /\ IF up
       THEN /\ submitted' = Set(submitted, s, inp)
            /\ op' = Set(op, s, [kind |-> "connect", err |-> FALSE])
            /\ UNCHANGED errs
            /\ IF ImportRuns(file)
               THEN /\ loop_base' = Set(loop_base, s, Len(created_locations[s]))
                    /\ row_idx' = Set(row_idx, s, 1)
                    /\ ret_to' = Set(ret_to, s, "import")
                    /\ import_gen' = Set(import_gen, s, Count(gen0))
                    /\ pc' = Set(pc, s, "gen_draw")
               ELSE /\ pc' = Set(pc, s, IF inp THEN "input" ELSE "idle")
                    /\ import_gen' = Set(import_gen, s, gen0)
                    /\ UNCHANGED << loop_base, row_idx, ret_to >>
       ELSE /\ submitted' = Set(submitted, s, FALSE)
            /\ op' = Set(op, s, [kind |-> "connect", err |-> TRUE])
            /\ errs' = Set(errs, s, TRUE)
            /\ pc' = Set(pc, s, "idle")
            /\ import_gen' = Set(import_gen, s, gen0)
            /\ UNCHANGED << loop_base, row_idx, ret_to >>

\* The user puts a file in the uploader: the widget changes, the script runs.
Upload(s, f, up) ==
    /\ pc[s] = "idle"
    /\ uploaded_file' = Set(uploaded_file, s, Some(f))
    /\ import_save' = Set(import_save, s, 0)
    /\ Start(s, up, FALSE, Some(f), 0)
    /\ actor' = s
    /\ UNCHANGED << table, collected_data, awaiting_fields, approval_status,
                    created_locations, bot_reply, rendered, loc_id, gen_ret,
                    chat_saves >>

\* The user takes the file out of the uploader: the script runs.
ClearFile(s, up) ==
    /\ pc[s] = "idle"
    /\ uploaded_file[s] # None
    /\ uploaded_file' = Set(uploaded_file, s, None)
    /\ import_save' = Set(import_save, s, 0)
    /\ Start(s, up, FALSE, None, 0)
    /\ actor' = s
    /\ UNCHANGED << table, collected_data, awaiting_fields, approval_status,
                    created_locations, bot_reply, rendered, loc_id, gen_ret,
                    chat_saves >>

\* The user sends a chat message: the run it starts receives it at line 208.
Submit(s, up) ==
    /\ pc[s] = "idle"
    /\ Start(s, up, TRUE, uploaded_file[s], import_gen[s])
    /\ actor' = s
    /\ UNCHANGED << table, uploaded_file, collected_data, awaiting_fields,
                    approval_status, created_locations, bot_reply, rendered,
                    loc_id, gen_ret, import_save, chat_saves >>

\* lines 85-87: generate_location_id draws a candidate.
GenDraw(s, cand) ==
    /\ pc[s] = "gen_draw"
    /\ loc_id' = Set(loc_id, s, cand)
    /\ op' = Set(op, s, NoOp)
    /\ pc' = Set(pc, s, "gen_check")
    /\ actor' = s
    /\ UNCHANGED << table, uploaded_file, submitted, user_input, collected_data,
                    awaiting_fields, approval_status, created_locations, bot_reply,
                    rendered, row_idx, gen_ret, ret_to, errs, import_gen,
                    import_save, chat_saves, loop_base >>

\* lines 89-105: the existence check of the candidate: the call returns it, or
\* the loop draws again.  The import takes the value returned into row_data
\* (line 176), the chat handler into collected_data (line 231).
GenCheck(s, err) ==
    /\ pc[s] = "gen_check"
    /\ op' = Set(op, s, [kind |-> "check", err |-> err])
    /\ errs' = Set(errs, s, errs[s] \/ err)
    /\ IF GenReturns(err, CountId(table, loc_id[s]))
       THEN /\ loc_id' = Set(loc_id, s, << >>)
            /\ ret_to' = Set(ret_to, s, "none")
            /\ IF ret_to[s] = "import"
               THEN /\ gen_ret' = Set(gen_ret, s, loc_id[s])
                    /\ pc' = Set(pc, s, "save_row")
                    /\ UNCHANGED collected_data
               ELSE /\ collected_data' =
                        [collected_data EXCEPT ![s]["location_id"] = Some(loc_id[s])]
                    /\ pc' = Set(pc, s, "approve")
                    /\ UNCHANGED gen_ret
       ELSE /\ pc' = Set(pc, s, "gen_draw")
            /\ UNCHANGED << loc_id, ret_to, gen_ret, collected_data >>
    /\ actor' = s
    /\ UNCHANGED << table, uploaded_file, submitted, user_input, awaiting_fields,
                    approval_status, created_locations, bot_reply, rendered, row_idx,
                    import_gen, import_save, chat_saves, loop_base >>

\* lines 175-185: the import saves the row and shows the message; the loop goes
\* to the next row, or ends.
SaveRow(s, outcome) ==
    /\ pc[s] = "save_row"
    /\ LET rows == uploaded_file[s][1]
           data == RowData(rows, row_idx[s], gen_ret[s])
       IN  /\ save_to_mysql(s, "import", data, outcome)
           /\ rendered' = Set(rendered, s, Append(rendered[s], SaveMessage(data, outcome)))
           /\ import_save' = Set(import_save, s, Count(import_save[s]))
           /\ gen_ret' = Set(gen_ret, s, << >>)
           /\ IF LoopContinues(outcome, row_idx[s], Len(rows))
              THEN /\ row_idx' = Set(row_idx, s, row_idx[s] + 1)
                   /\ ret_to' = Set(ret_to, s, "import")
                   /\ import_gen' = Set(import_gen, s, Count(import_gen[s]))
                   /\ pc' = Set(pc, s, "gen_draw")
              ELSE /\ row_idx' = Set(row_idx, s, 0)
                   /\ pc' = Set(pc, s, "input")
                   /\ UNCHANGED << ret_to, import_gen >>
    /\ actor' = s
    /\ UNCHANGED << uploaded_file, submitted, user_input, collected_data,
                    awaiting_fields,
                    approval_status, bot_reply, loc_id, chat_saves, loop_base >>

\* lines 208-210: no chat message in this run: the script ends.
Finish(s) ==
    /\ pc[s] = "input" /\ ~submitted[s]
    /\ rendered' = Set(rendered, s, << >>)
    /\ loop_base' = Set(loop_base, s, 0)
    /\ op' = Set(op, s, NoOp)
    /\ pc' = Set(pc, s, "idle")
    /\ actor' = s
    /\ UNCHANGED << table, uploaded_file, submitted, user_input, collected_data,
                    awaiting_fields, approval_status, created_locations, bot_reply,
                    row_idx, loc_id, gen_ret, ret_to, errs, import_gen, import_save,
                    chat_saves >>

\* lines 208-231: st.chat_input returns the message msg; the awaited fields
\* take the values of the message, the missing fields are recomputed; the
\* handler asks for them, or goes on to the review (generating the identifier
\* first when the record has none).
HandleInput(s, msg) ==
    /\ pc[s] = "input" /\ submitted[s]
    /\ submitted' = Set(submitted, s, FALSE)
    /\ user_input' = Set(user_input, s, Some(msg))
    /\ rendered' = Set(rendered, s, << >>)
    /\ loop_base' = Set(loop_base, s, 0)
    /\ op' = Set(op, s, NoOp)
    /\ LET cd == IF awaiting_fields[s] # << >>
                 THEN AssignValues(collected_data[s], awaiting_fields[s], Values(msg))
                 ELSE collected_data[s]
        missing == missing_fields(cd)
       IN  /\ collected_data' = Set(collected_data, s, cd)
           /\ awaiting_fields' = Set(awaiting_fields, s, missing)
           /\ IF missing # << >>
              THEN /\ bot_reply' = Set(bot_reply, s, [kind |-> "missing", fields |-> missing])
                   /\ pc' = Set(pc, s, "rerun")
                   /\ UNCHANGED ret_to
              ELSE /\ UNCHANGED bot_reply
                   /\ IF cd["location_id"] = None
                      THEN /\ ret_to' = Set(ret_to, s, "chat")
                           /\ pc' = Set(pc, s, "gen_draw")
                      ELSE /\ pc' = Set(pc, s, "approve")
                           /\ UNCHANGED ret_to
    /\ actor' = s
    /\ UNCHANGED << table, uploaded_file, approval_status,
                    created_locations, row_idx, loc_id, gen_ret, errs, import_gen,
                    import_save, chat_saves >>

\* lines 233-240: the record is shown for review.
ApproveReview(s) ==
    /\ pc[s] = "approve"
    /\ Branch(approval_status[s], user_input[s][1]) = "review"
    /\ bot_reply' = Set(bot_reply, s, [kind |-> "review"])
    /\ approval_status' = Set(approval_status, s, "pending")
    /\ op' = Set(op, s, NoOp)
    /\ pc' = Set(pc, s, "rerun")
    /\ actor' = s
    /\ UNCHANGED << table, uploaded_file, submitted, user_input, collected_data,
                    awaiting_fields, created_locations, rendered, row_idx, loc_id,
                    gen_ret, ret_to, errs, import_gen, import_save, chat_saves,
                    loop_base >>

\* lines 241-247: yes: the record is saved and the status is approved.
ApproveYes(s, outcome) ==
    /\ pc[s] = "approve"
    /\ Branch(approval_status[s], user_input[s][1]) = "yes"
    /\ LET cd == IF collected_data[s]["created_by"] = None
                 THEN [collected_data[s] EXCEPT !["created_by"] = Some("AI")]
                 ELSE collected_data[s]
       IN  /\ collected_data' = Set(collected_data, s, cd)
           /\ save_to_mysql(s, "chat", ChatData(cd), outcome)
           /\ bot_reply' = Set(bot_reply, s, SaveMessage(ChatData(cd), outcome))
    /\ chat_saves' = Set(chat_saves, s, Count(chat_saves[s]))
    /\ approval_status' = Set(approval_status, s, StatusAfterSave(outcome))
    /\ pc' = Set(pc, s, "rerun")
    /\ actor' = s
    /\ UNCHANGED << uploaded_file, submitted, user_input, awaiting_fields,
                    rendered, row_idx,
                    loc_id, gen_ret, ret_to, import_gen, import_save, loop_base >>

\* lines 248-250: no: the creation is cancelled.
ApproveNo(s) ==
    /\ pc[s] = "approve"
    /\ Branch(approval_status[s], user_input[s][1]) = "no"
    /\ bot_reply' = Set(bot_reply, s, [kind |-> "cancelled"])
    /\ approval_status' = Set(approval_status, s, "cancelled")
    /\ op' = Set(op, s, NoOp)
    /\ pc' = Set(pc, s, "rerun")
    /\ actor' = s
    /\ UNCHANGED << table, uploaded_file, submitted, user_input, collected_data,
                    awaiting_fields, created_locations, rendered, row_idx, loc_id,
                    gen_ret, ret_to, errs, import_gen, import_save, chat_saves,
                    loop_base >>

\* lines 251-252: neither: the question is asked again.
ApproveOther(s) ==
    /\ pc[s] = "approve"
    /\ Branch(approval_status[s], user_input[s][1]) = "other"
    /\ bot_reply' = Set(bot_reply, s, [kind |-> "confirm"])
    /\ op' = Set(op, s, NoOp)
    /\ pc' = Set(pc, s, "rerun")
    /\ actor' = s
    /\ UNCHANGED << table, uploaded_file, submitted, user_input, collected_data,
                    awaiting_fields, approval_status, created_locations, rendered,
                    row_idx, loc_id, gen_ret, ret_to, errs, import_gen, import_save,
                    chat_saves, loop_base >>

\* lines 253-254, 59-78: the message goes to the language model, whose answer,
\* or the text of its error, is the reply.
ApproveFallback(s, ok) ==
    /\ pc[s] = "approve"
    /\ Branch(approval_status[s], user_input[s][1]) = "fallback"
    /\ bot_reply' = Set(bot_reply, s, [kind |-> IF ok THEN "ai" ELSE "ai_error"])
    /\ op' = Set(op, s, [kind |-> "ai", prompt |-> user_input[s][1]])
    /\ pc' = Set(pc, s, "rerun")
    /\ actor' = s
    /\ UNCHANGED << table, uploaded_file, submitted, user_input, collected_data,
                    awaiting_fields, approval_status, created_locations, rendered,
                    row_idx, loc_id, gen_ret, ret_to, errs, import_gen, import_save,
                    chat_saves, loop_base >>

\* lines 256-257: the reply joins the chat history and st.rerun() runs the
\* script again, with no chat message.
Rerun(s, up) ==
    /\ pc[s] = "rerun"
    /\ bot_reply' = Set(bot_reply, s, NoReply)
    /\ Start(s, up, FALSE, uploaded_file[s], import_gen[s])
    /\ actor' = s
    /\ UNCHANGED << table, uploaded_file, collected_data, awaiting_fields,
                    approval_status, created_locations, rendered, loc_id, gen_ret,
                    import_save, chat_saves >>

\* The messages the user of session s types now: any of Messages, except that
\* MsgNo is not given as the value of a field (every field value typed is "Y").
Typed(s) == {m \in Messages : m = MsgNo => awaiting_fields[s] = << >>}

\* One step of the script run of session s.
Run(s) ==
    \/ \E cand \in Candidates : GenDraw(s, cand)
    \/ \E err \in BOOLEAN : GenCheck(s, err)
    \/ \E outcome \in Outcomes : SaveRow(s, outcome)
    \/ Finish(s)
    \/ \E m \in Typed(s) : HandleInput(s, m)
    \/ ApproveReview(s)
    \/ \E outcome \in Outcomes : ApproveYes(s, outcome)
    \/ ApproveNo(s)
    \/ ApproveOther(s)
    \/ \E ok \in BOOLEAN : ApproveFallback(s, ok)
    \/ \E up \in BOOLEAN : Rerun(s, up)

\* One session: uploads, chat messages and the runs they start.
Next ==
    \/ \E f \in Files, up \in BOOLEAN : Upload(1, f, up)
    \/ \E up \in BOOLEAN : ClearFile(1, up)
    \/ \E up \in BOOLEAN : Submit(1, up)
    \/ Run(1)

Spec == Init /\ [][Next]_vars

\* Two sessions that chat at the same time and share the table: the steps of
\* their script runs interleave at the database operations.
TypedTwo == {MsgFull, MsgY}

NextTwo ==
    \E s \in Sessions :
        \/ \E up \in BOOLEAN : Submit(s, up)
        \/ \E cand \in Candidates : GenDraw(s, cand)
        \/ \E err \in BOOLEAN : GenCheck(s, err)
        \/ \E m \in TypedTwo : HandleInput(s, m)
        \/ ApproveReview(s)
        \/ \E outcome \in Outcomes : ApproveYes(s, outcome)
        \/ ApproveOther(s)
        \/ \E ok \in BOOLEAN : ApproveFallback(s, ok)
        \/ \E up \in BOOLEAN : Rerun(s, up)

SpecTwo == Init /\ [][NextTwo]_vars

\* One session that only chats, answering the prompts with any of FormMessages.
NextForm ==
    \/ \E up \in BOOLEAN : Submit(1, up)
    \/ \E cand \in Candidates : GenDraw(1, cand)
    \/ \E err \in BOOLEAN : GenCheck(1, err)
    \/ \E m \in FormMessages : HandleInput(1, m)
    \/ ApproveReview(1)
    \/ \E outcome \in Outcomes : ApproveYes(1, outcome)
    \/ ApproveNo(1)
    \/ ApproveOther(1)
    \/ \E ok \in BOOLEAN : ApproveFallback(1, ok)
    \/ \E up \in BOOLEAN : Rerun(1, up)

SpecForm == Init /\ [][NextForm]_vars

\* One session that only uploads files; the script never stops between two
\* steps of a run, and the random draws are fair: a candidate that can be
\* drawn again and again is drawn.
NextLoad ==
    \/ \E f \in Files, up \in BOOLEAN : Upload(1, f, up)
    \/ \E up \in BOOLEAN : ClearFile(1, up)
    \/ \E cand \in Candidates : GenDraw(1, cand)
    \/ \E err \in BOOLEAN : GenCheck(1, err)
    \/ \E outcome \in Outcomes : SaveRow(1, outcome)
    \/ Finish(1)

FairSpec ==
    /\ Init /\ [][NextLoad]_vars
    /\ WF_vars(\E err \in BOOLEAN : GenCheck(1, err))
    /\ \A cand \in Candidates : SF_vars(GenDraw(1, cand))

\* ------------------------------------------------------------------ claims
\* the rows of tbl the chat handler of session s inserted
ChatRows(tbl, s) ==
    Cardinality({i \in 1..Len(tbl) :
        tbl[i].session = s /\ tbl[i].created_by = "AI"})

\* C1, as first stated: at every call of save_to_mysql made by a session,
\* approval_status is not None and awaiting_fields is empty.
C1_EverySaveGated ==
    \A s \in Sessions :
        op[s].kind = "save" =>
            op[s].status # "None" /\ op[s].awaiting = << >>

\* C1, amended: at every call of save_to_mysql made by the chat handler,
\* approval_status is not None and awaiting_fields is empty (the bulk import
\* saves every row whatever the two are).
C1_ChatSaveGated ==
    \A s \in Sessions :
        (op[s].kind = "save" /\ op[s].caller = "chat") =>
            op[s].status # "None" /\ op[s].awaiting = << >>

\* the chat handler has just saved a record
C1_Witness ==
    /\ op[1].kind = "save" /\ op[1].caller = "chat" /\ op[1].outcome = "ok"
    /\ op[1].status = "pending"

\* C2: without persistence errors, a yes or y (in any case) in status pending
\* inserts exactly one row of the chat flow, sets approval_status to approved,
\* and the reply is the success message with the record's location_id.
C2_YesInsertsOnce ==
    [][\A s \in Sessions :
        (/\ pc[s] = "approve" /\ pc'[s] # "approve"
         /\ approval_status[s] = "pending"
         /\ Lower(user_input[s][1]) \in {<< "y", "e", "s" >>, << "y" >>}
         /\ ~errs'[s])
        => /\ approval_status'[s] = "approved"
           /\ ChatRows(table, s) = 0
           /\ ChatRows(table', s) = 1
           /\ Len(table') = Len(table) + 1
           /\ table'[Len(table')].location_id = collected_data[s]["location_id"][1]
           /\ \A f \in Fields :
                /\ collected_data[s][f] # None
                /\ collected_data[s][f][1] # << >>
                /\ table'[Len(table')][f] = Strip(collected_data[s][f][1])
           /\ bot_reply'[s] =
                [kind |-> "success", id |-> collected_data[s]["location_id"][1]]
    ]_vars

\* the yes was answered, the row inserted, with no persistence error so far
C2_Witness ==
    /\ approval_status[1] = "approved" /\ ~errs[1]
    /\ op[1].kind = "save" /\ op[1].caller = "chat"
    /\ bot_reply[1].kind = "success"
    /\ ChatRows(table, 1) = 1

\* C3: in status pending a no or n (in any case) sets approval_status to
\* cancelled with no persistence call; from then on the status stays cancelled
\* and the chat flow inserts no record.
C3_NoCancels ==
    [][\A s \in Sessions :
        /\ (/\ pc[s] = "approve" /\ pc'[s] # "approve"
            /\ approval_status[s] = "pending"
            /\ Lower(user_input[s][1]) \in {<< "n", "o" >>, << "n" >>})
           => /\ approval_status'[s] = "cancelled"
              /\ table' = table
              /\ created_locations' = created_locations
              /\ op'[s].kind # "save"
              /\ chat_saves'[s] = 0
        /\ approval_status[s] = "cancelled"
           => /\ approval_status'[s] = "cancelled"
              /\ chat_saves'[s] = 0
              /\ ChatRows(table', s) = 0
    ]_vars

\* cancelled, and a later yes went to the language model
C3_Witness ==
    /\ approval_status[1] = "cancelled"
    /\ op[1].kind = "ai" /\ op[1].prompt = MsgY
    /\ ChatRows(table, 1) = 0

\* the failure messages among the messages shown
Failures(msgs) == Cardinality({i \in 1..Len(msgs) : msgs[i].kind = "db_error"})

\* C4: when the import loop over a file of N rows ends, of which k failed at
\* persistence, N messages were shown (every row was attempted) and N-k entries
\* were appended to created_locations.
C4_PerRowFailures ==
    \A s \in Sessions :
        (pc[s] = "input" /\ uploaded_file[s] # None) =>
            LET n == Len(uploaded_file[s][1])
                k == Failures(rendered[s])
            IN  /\ Len(rendered[s]) = n
                /\ Len(created_locations[s]) + k = loop_base[s] + n

\* a loop over two rows ended: the first row failed, the second was saved
C4_Witness ==
    /\ pc[1] = "input" /\ uploaded_file[1] # None
    /\ Len(rendered[1]) = 2
    /\ rendered[1][1].kind = "db_error"
    /\ rendered[1][2].kind = "success"

\* C5: each row of an uploaded file causes exactly one identifier generation
\* and one persistence call, however many chat turns follow the upload.
C5_ImportOnce ==
    \A s \in Sessions :
        uploaded_file[s] # None =>
            LET n == Len(uploaded_file[s][1])
            IN  /\ import_gen[s] <= n
                /\ import_save[s] <= n
                /\ (pc[s] = "idle" /\ ~errs[s]) =>
                        (import_gen[s] = n /\ import_save[s] = n)

\* 2 uppercase letters followed by 3 digits
WellFormedId(id) ==
    /\ Len(id) = 5
    /\ \A i \in 1..2 : id[i] \in Range(AsciiUpper)
    /\ \A i \in 3..5 : id[i] \in Range(AsciiDigits)

\* the value a call of generate_location_id of session s returns in this step
Returned(s) ==
    IF ret_to[s] = "import" THEN gen_ret'[s]
    ELSE collected_data'[s]["location_id"][1]

\* session s makes the existence check of its generator in this step
Checks(s) == pc[s] = "gen_check" /\ op[s].kind # "check" /\ op'[s].kind = "check"

\* C6: an identifier generate_location_id returns is 2 uppercase letters and
\* 3 digits and, when the check raised no error, is the location_id of no row
\* at the moment of the check; a candidate found present is drawn again.
C6_GeneratedIds ==
    [][\A s \in Sessions :
        Checks(s) =>
            IF pc'[s] = "gen_draw"
            THEN /\ ~op'[s].err
                 /\ \E i \in 1..Len(table) : table[i].location_id = loc_id[s]
            ELSE /\ pc'[s] \in {"save_row", "approve"}
                 /\ WellFormedId(Returned(s))
                 /\ ~op'[s].err =>
                        \A i \in 1..Len(table) : table[i].location_id # Returned(s)
    ]_vars

\* the generator returned to the import an identifier it checked against rows
C6_Witness ==
    /\ pc[1] = "save_row" /\ op[1].kind = "check" /\ ~op[1].err
    /\ Len(table) > 0
    /\ WellFormedId(gen_ret[1])

\* C7: when the existence check hits a persistence error, the call returns at
\* once the candidate drawn in that iteration, unverified, with no new draw.
C7_FailOpen ==
    [][\A s \in Sessions :
        (Checks(s) /\ op'[s].err) =>
            /\ pc'[s] \in {"save_row", "approve"}
            /\ Returned(s) = loc_id[s]
    ]_vars

\* the check raised and the generator returned an identifier a row has
C7_Witness ==
    /\ pc[1] = "save_row" /\ op[1].kind = "check" /\ op[1].err
    /\ \E i \in 1..Len(table) : table[i].location_id = gen_ret[1]

\* the snapshots of the rows of tbl that session s committed, in insert order
CommittedBy(tbl, s) ==
    LET mine == SelectSeq(tbl, LAMBDA r : r.session = s)
    IN  [i \in 1..Len(mine) |->
            [location_id |-> mine[i].location_id,
             location_name |-> mine[i].location_name,
             location_type |-> mine[i].location_type,
             zone |-> mine[i].zone,
             aisle |-> mine[i].aisle,
             site_code |-> mine[i].site_code,
             created_by |-> mine[i].created_by]]

\* C8: save_to_mysql returns the success message and appends one snapshot when
\* the row was committed, a failure message and no snapshot otherwise; so
\* created_locations holds one entry per row the session committed, in order.
C8_CreatedMirrorsCommitted ==
    \A s \in Sessions :
        /\ created_locations[s] = CommittedBy(table, s)
        /\ op[s].kind = "save" =>
                (op[s].message.kind = "success" <=> op[s].outcome \in {"ok", "err_close"})

\* C9: in a session with no persistence errors no two rows of the table carry
\* the same location_id.
C9_UniqueIds ==
    ~errs[1] =>
        \A i, j \in 1..Len(table) :
            i # j => table[i].location_id # table[j].location_id

\* the in-memory state of session t
Local(t) ==
    << pc[t], uploaded_file[t], submitted[t], user_input[t], collected_data[t],
       awaiting_fields[t], approval_status[t], created_locations[t], bot_reply[t],
       rendered[t], row_idx[t], loc_id[t], gen_ret[t], ret_to[t], op[t], errs[t],
       import_gen[t], import_save[t], chat_saves[t], loop_base[t] >>

\* C10: the check and the insert of an identifier are not atomic between two
\* sessions (both can accept the same candidate and insert it: C10_Witness),
\* and no step of a session changes the in-memory state of the other.
C10_SessionsIsolated ==
    [][\A t \in Sessions : t # actor' => Local(t)' = Local(t)]_vars

\* with no persistence error, the table holds two rows of one location_id,
\* one inserted by each session
C10_Witness ==
    /\ ~errs[1] /\ ~errs[2]
    /\ \E i, j \in 1..Len(table) :
        /\ table[i].session = 1 /\ table[j].session = 2
        /\ table[i].location_id = table[j].location_id

\* session s handles a chat message in this step (lines 210-231)
Handles(s) == pc[s] = "input" /\ submitted[s] /\ pc'[s] # "input"

\* C11: when k fields are awaited and the message splits into n values, the
\* i-th awaited field takes the trimmed i-th value for i up to min(k, n),
\* further values are ignored (no other key changes), awaited fields past the
\* n-th keep what they had, and awaiting_fields becomes the missing fields
\* recomputed; with all five awaited and five values non-empty once trimmed,
\* the five fields are filled in the order of required_fields and nothing is
\* awaited.
C11_PositionalAssignment ==
    [][\A s \in Sessions :
        (Handles(s) /\ awaiting_fields[s] # << >>) =>
            LET awaiting == awaiting_fields[s]
                vals == Split(user_input'[s][1])
                k == Len(awaiting)
                n == Len(vals)
                cd == collected_data'[s]
            IN  /\ \A i \in 1..k :
                    cd[awaiting[i]] =
                        IF i <= n THEN Some(Strip(vals[i]))
                        ELSE collected_data[s][awaiting[i]]
                /\ \A key \in Keys \ Range(awaiting) : cd[key] = collected_data[s][key]
                /\ awaiting_fields'[s] =
                        SelectSeq(required_fields,
                                  LAMBDA f : cd[f] = None \/ cd[f] = Some(<< >>))
                /\ (/\ awaiting = required_fields
                    /\ n = 5
                    /\ \A i \in 1..5 : Strip(vals[i]) # << >>)
                   => /\ \A i \in 1..5 : cd[required_fields[i]] = Some(Strip(vals[i]))
                      /\ awaiting_fields'[s] = << >>
                /\ (awaiting = required_fields /\ user_input'[s][1] = MsgFive)
                   => /\ cd["location_name"] = Some(<< "a" >>)
                      /\ cd["location_type"] = Some(<< "b" >>)
                      /\ cd["zone"] = Some(<< "c" >>)
                      /\ cd["aisle"] = Some(<< "d" >>)
                      /\ cd["site_code"] = Some(<< "e" >>)
    ]_vars

\* two values filled the first two fields, and the five values of the next
\* message the three fields still awaited: the last two values were ignored
C11_Witness ==
    /\ user_input[1] = Some(MsgFive)
    /\ awaiting_fields[1] = << >>
    /\ collected_data[1]["location_name"] = Some(<< "f" >>)
    /\ collected_data[1]["location_type"] = Some(<< "g" >>)
    /\ collected_data[1]["zone"] = Some(<< "a" >>)
    /\ collected_data[1]["aisle"] = Some(<< "b" >>)
    /\ collected_data[1]["site_code"] = Some(<< "c" >>)

\* session s calls save_to_mysql in this step
Saves(s) == pc[s] \in {"save_row", "approve"} /\ op'[s].kind = "save"

\* the rows of tbl whose name equals name in lower case
SameName(tbl, name) == {i \in 1..Len(tbl) : Lower(tbl[i].location_name) = Lower(name)}

\* C12: a call of save_to_mysql that meets no persistence error inserts its
\* row and returns the success message whether or not a row of the same name
\* (case-insensitively, trimmed) exists, and warns exactly when one does.
C12_DuplicateNameWarns ==
    [][\A s \in Sessions :
        (Saves(s) /\ op'[s].outcome = "ok") =>
            /\ Len(table') = Len(table) + 1
            /\ SubSeq(table', 1, Len(table)) = table
            /\ table'[Len(table')].location_id = op'[s].id
            /\ op'[s].message = [kind |-> "success", id |-> op'[s].id]
            /\ op'[s].warned <=>
                    SameName(table, table'[Len(table')].location_name) # {}
    ]_vars

\* a row named "Y" by the chat and a row named "y" by the import: the second
\* save warned and inserted
C12_Witness ==
    /\ op[1].kind = "save" /\ op[1].outcome = "ok" /\ op[1].warned
    /\ op[1].message.kind = "success"
    /\ Len(table) = 2
    /\ table[1].location_name # table[2].location_name
    /\ Lower(table[1].location_name) = Lower(table[2].location_name)

\* session s takes one of the branches of lines 233-254 in this step
Answers(s) == pc[s] = "approve" /\ pc'[s] = "rerun"

\* C13: approval_status changes only in the approval branch of a chat turn,
\* once per turn, and only None -> pending, pending -> approved or
\* pending -> cancelled; approved and cancelled never change again; in
\* status pending a message that is none of yes, y, no, n in any case leaves
\* the status pending and the reply asks for yes or no again.
C13_StatusMoves ==
    [][\A s \in Sessions :
        /\ approval_status'[s] # approval_status[s] =>
                /\ Answers(s)
                /\ << approval_status[s], approval_status'[s] >> \in
                        { << "None", "pending" >>, << "pending", "approved" >>,
                          << "pending", "cancelled" >> }
        /\ approval_status[s] \in {"approved", "cancelled"} =>
                approval_status'[s] = approval_status[s]
        /\ (/\ Answers(s)
            /\ approval_status[s] = "pending"
            /\ Lower(user_input[s][1]) \notin
                    { << "y", "e", "s" >>, << "y" >>, << "n", "o" >>, << "n" >> })
           => /\ approval_status'[s] = "pending"
              /\ bot_reply'[s] = [kind |-> "confirm"]
    ]_vars

\* " Y" in status pending: asked again, still pending
C13_Witness ==
    /\ pc[1] = "rerun"
    /\ approval_status[1] = "pending"
    /\ user_input[1] = Some(MsgOther)
    /\ bot_reply[1].kind = "confirm"

\* C14: ai_response is called in a chat turn exactly when approval_status is
\* approved or cancelled: in those states the handler finds nothing missing
\* and generates nothing, the message is the prompt as typed and the answer
\* of ai_response is the reply; in status None or pending it is not called.
C14_FallbackWhenResolved ==
    [][\A s \in Sessions :
        LET resolved == approval_status[s] \in {"approved", "cancelled"}
        IN  /\ (op'[s].kind = "ai" /\ pc[s] # "rerun") => (Answers(s) /\ resolved)
            /\ (Handles(s) /\ resolved) =>
                    (pc'[s] = "approve" /\ approval_status'[s] = approval_status[s])
            /\ (Answers(s) /\ resolved) =>
                    /\ op'[s] = [kind |-> "ai", prompt |-> user_input[s][1]]
                    /\ bot_reply'[s].kind \in {"ai", "ai_error"}
            /\ (Answers(s) /\ ~resolved) =>
                    /\ op'[s].kind # "ai"
                    /\ bot_reply'[s].kind \notin {"ai", "ai_error"}
    ]_vars

\* approved, and the next message went to the language model as typed
C14_Witness ==
    /\ approval_status[1] = "approved"
    /\ op[1] = [kind |-> "ai", prompt |-> MsgFull]
    /\ bot_reply[1].kind = "ai"

\* C15: a yes or y in status pending sets created_by to "AI" when it is unset,
\* calls save_to_mysql once, sets approval_status to approved whatever the
\* call returns, and the message returned is the reply (the failure message
\* when the save failed); once approved, no chat turn calls save_to_mysql.
C15_ApprovedWhateverSaved ==
    [][\A s \in Sessions :
        /\ (/\ Answers(s)
            /\ approval_status[s] = "pending"
            /\ Lower(user_input[s][1]) \in {<< "y", "e", "s" >>, << "y" >>})
           => /\ collected_data'[s]["created_by"] =
                    IF collected_data[s]["created_by"] = None THEN Some("AI")
                    ELSE collected_data[s]["created_by"]
              /\ op'[s].kind = "save" /\ op'[s].caller = "chat"
              /\ chat_saves[s] = 0 /\ chat_saves'[s] = 1
              /\ approval_status'[s] = "approved"
              /\ bot_reply'[s] = op'[s].message
              /\ op'[s].outcome # "ok" => bot_reply'[s] = [kind |-> "db_error"]
        /\ approval_status[s] = "approved" =>
              /\ chat_saves'[s] = chat_saves[s]
              /\ ~(op'[s].kind = "save" /\ op'[s].caller = "chat" /\ op'[s] # op[s])
    ]_vars

\* the save failed at the INSERT: approved all the same, the failure is the reply
C15_Witness ==
    /\ pc[1] = "rerun"
    /\ approval_status[1] = "approved"
    /\ op[1].kind = "save" /\ op[1].caller = "chat" /\ op[1].outcome = "err_insert"
    /\ bot_reply[1] = [kind |-> "db_error"]
    /\ ChatRows(table, 1) = 0

\* the required fields with no non-empty value in cd
Unfilled(cd) == {f \in Fields : cd[f] = None \/ cd[f][1] = << >>}

\* seq lists exactly the fields of set, in the order of required_fields
ListsInOrder(seq, set) ==
    /\ Range(seq) = set
    /\ Len(seq) = Cardinality(set)
    /\ \A i, j \in 1..Len(seq) :
            i < j => \E a, b \in 1..Len(required_fields) :
                        a < b /\ required_fields[a] = seq[i] /\ required_fields[b] = seq[j]

\* C16: when a chat turn ends, awaiting_fields lists exactly the required
\* fields without a non-empty value, in the order of required_fields, and
\* this stays so until the next turn; when the list is not empty the reply
\* of the turn asks for exactly these fields.
C16_AwaitingIsMissing ==
    [][\A s \in Sessions :
        /\ (pc'[s] = "rerun" /\ pc[s] # "rerun") =>
                ListsInOrder(awaiting_fields'[s], Unfilled(collected_data'[s]))
        /\ ListsInOrder(awaiting_fields[s], Unfilled(collected_data[s])) =>
                ListsInOrder(awaiting_fields'[s], Unfilled(collected_data'[s]))
        /\ Handles(s) =>
                IF Unfilled(collected_data'[s]) # {}
                THEN /\ pc'[s] = "rerun"
                     /\ bot_reply'[s] =
                            [kind |-> "missing", fields |-> awaiting_fields'[s]]
                ELSE bot_reply'[s].kind # "missing"
    ]_vars

\* all five were awaited and the message gave an empty value, a blank value
\* and "k": the third field is filled, the other four are asked for again
C16_Witness ==
    /\ pc[1] = "rerun"
    /\ user_input[1] = Some(MsgGap)
    /\ collected_data[1]["location_name"] = Some(<< >>)
    /\ collected_data[1]["location_type"] = Some(<< >>)
    /\ collected_data[1]["zone"] = Some(<< "k" >>)
    /\ collected_data[1]["aisle"] = None
    /\ awaiting_fields[1] = << "location_name", "location_type", "aisle", "site_code" >>
    /\ bot_reply[1] = [kind |-> "missing", fields |-> awaiting_fields[1]]

\* session s is inside a call of generate_location_id
InGenerator(s) == pc[s] \in {"gen_draw", "gen_check"}

\* C17: a call of generate_location_id made while some identifier the draws
\* can produce is absent from the table returns eventually, the draws being
\* fair (nothing else in the loop bounds the number of draws).
C17_GeneratorReturns ==
    \A cand \in Candidates :
        (InGenerator(1) /\ CountId(table, cand) = 0) ~> ~InGenerator(1)

\* a candidate was found present and the loop draws again, another candidate
\* being absent from the table
C17_Witness ==
    /\ pc[1] = "gen_draw"
    /\ op[1] = [kind |-> "check", err |-> FALSE]
    /\ \E cand \in Candidates : CountId(table, cand) = 0
    /\ \E cand \in Candidates : CountId(table, cand) > 0

\* C18: in a session the chat handler calls save_to_mysql at most once, so the
\* chat flow inserts at most one row; a call made, the status is approved.
C18_ChatSavesOnce ==
    \A s \in Sessions :
        /\ chat_saves[s] <= 1
        /\ ChatRows(table, s) <= chat_saves[s]
        /\ chat_saves[s] = 1 => approval_status[s] = "approved"

\* the row of the chat is in the table and a second yes went to the language
\* model
C18_Witness ==
    /\ chat_saves[1] = 1 /\ ChatRows(table, 1) = 1
    /\ op[1] = [kind |-> "ai", prompt |-> MsgY]

\* C19: a required field that holds a non-empty value keeps it in every step
\* (the fields the handler assigns are awaited ones, and awaited fields have
\* no non-empty value); generate_location_id is called by the chat handler
\* only while the record has no location_id, and a location_id once set
\* never changes.
C19_WriteOnce ==
    [][\A s \in Sessions :
        /\ \A f \in Fields \ Unfilled(collected_data[s]) :
                collected_data'[s][f] = collected_data[s][f]
        /\ Handles(s) => Range(awaiting_fields[s]) \subseteq Unfilled(collected_data[s])
        /\ collected_data[s]["location_id"] # None =>
                collected_data'[s]["location_id"] = collected_data[s]["location_id"]
        /\ (Handles(s) /\ pc'[s] = "gen_draw") =>
                (collected_data[s]["location_id"] = None /\ ret_to'[s] = "chat")
        /\ (InGenerator(s) /\ ret_to[s] = "chat") =>
                collected_data[s]["location_id"] = None
    ]_vars

\* "f,g" then "a, b,c ,d,e" filled the form, it was approved, and a later
\* message of six values changed nothing
C19_Witness ==
    /\ approval_status[1] = "approved"
    /\ op[1] = [kind |-> "ai", prompt |-> MsgFull]
    /\ collected_data[1]["location_name"] = Some(<< "f" >>)
    /\ collected_data[1]["location_type"] = Some(<< "g" >>)
    /\ collected_data[1]["zone"] = Some(<< "a" >>)
    /\ collected_data[1]["site_code"] = Some(<< "c" >>)
    /\ collected_data[1]["location_id"] # None

\* cd has, for each required field, a value that is not empty and has no
\* blank at either end, and a location_id
Complete(cd) ==
    /\ \A f \in Fields :
            /\ cd[f] # None
            /\ cd[f][1] # << >>
            /\ Head(cd[f][1]) # " " /\ cd[f][1][Len(cd[f][1])] # " "
    /\ cd["location_id"] # None

\* C20: the record the chat handler hands to save_to_mysql has a non-empty
\* trimmed value for each of the five required fields and a location_id, and
\* the row inserted carries these values; the review and what follows it are
\* reached only with such a record: an empty value leaves its field missing.
C20_ChatRecordComplete ==
    [][\A s \in Sessions :
        /\ (Answers(s) /\ op'[s].kind = "save") =>
                /\ Complete(collected_data[s])
                /\ op'[s].id = collected_data[s]["location_id"][1]
                /\ op'[s].outcome = "ok" =>
                        \A f \in Fields :
                            table'[Len(table')][f] = collected_data[s][f][1]
        /\ pc'[s] = "approve" => Complete(collected_data'[s])
        /\ approval_status'[s] # "None" => Complete(collected_data'[s])
    ]_vars

\* the first answer left the name empty; the second supplied it; the record
\* was reviewed, approved and inserted
C20_Witness ==
    /\ op[1].kind = "save" /\ op[1].caller = "chat" /\ op[1].outcome = "ok"
    /\ collected_data[1]["zone"] = Some(<< "k" >>)
    /\ Len(table) = 1
    /\ table[1].location_name = << "a" >>
    /\ table[1].zone = << "k" >>

====
